---- MODULE Spec2Model ----
(***************************************************************************)
(* Model of src/src/services/blockchainService.js: the BlockchainService   *)
(* singleton (network registry, one JSON-RPC provider per network, default *)
(* network key) and its operations.  Every async method is cut at its      *)
(* awaits: one action runs the synchronous prefix of a call, one action    *)
(* settles a pending upstream call and runs the continuation that awaits   *)
(* it.  JavaScript strings are sequences of one-character strings so that  *)
(* String.prototype.toLowerCase is computed, not assumed.                  *)
(***************************************************************************)
EXTENDS Naturals, Sequences, FiniteSets, TLC

VARIABLES gateway, calls, invoked

vars == <<gateway, calls, invoked>>

(* ------------------------------ bounds -------------------------------- *)

\* Invocations made over the lifetime of a behaviour.
MaxCalls == 2

\* Largest number an upstream call answers with (block height, gas, wei).
MaxBlock == 1

\* Callers that may have an invocation in flight at the same time.
Callers == {"c1", "c2"}

(* --------------------------- JavaScript values ------------------------ *)

Undefined == [kind |-> "undefined"]

Null == [kind |-> "null"]

Str(s) == [kind |-> "string", chars |-> s]

Num(n) == [kind |-> "number", n |-> n]

\* ToBoolean for the values that occur: undefined, null and '' are falsy.
Truthy(v) ==
    /\ v.kind # "undefined"
    /\ v.kind # "null"
    /\ ~(v.kind = "string" /\ v.chars = <<>>)

UpperLetters ==
    <<"A","B","C","D","E","F","G","H","I","J","K","L","M",
      "N","O","P","Q","R","S","T","U","V","W","X","Y","Z">>

LowerLetters ==
    <<"a","b","c","d","e","f","g","h","i","j","k","l","m",
      "n","o","p","q","r","s","t","u","v","w","x","y","z">>

\* String.prototype.toLowerCase on a sequence of characters.
toLowerCase(s) ==
    [i \in 1..Len(s) |->
        IF \E j \in 1..Len(UpperLetters) : UpperLetters[j] = s[i]
        THEN LowerLetters[CHOOSE j \in 1..Len(UpperLetters) : UpperLetters[j] = s[i]]
        ELSE s[i]]

\* String.prototype.toUpperCase, used to enumerate the casings of a key.
toUpperCase(s) ==
    [i \in 1..Len(s) |->
        IF \E j \in 1..Len(LowerLetters) : LowerLetters[j] = s[i]
        THEN UpperLetters[CHOOSE j \in 1..Len(LowerLetters) : LowerLetters[j] = s[i]]
        ELSE s[i]]

(* ------------------------------ the keys ------------------------------ *)

ethereum == <<"e","t","h","e","r","e","u","m">>

polygon == <<"p","o","l","y","g","o","n">>

polygonMumbai == <<"p","o","l","y","g","o","n","M","u","m","b","a","i">>

\* Names every plain object inherits from Object.prototype.
ObjectPrototype ==
    { <<"c","o","n","s","t","r","u","c","t","o","r">>,
      <<"_","_","p","r","o","t","o","_","_">>,
      <<"t","o","S","t","r","i","n","g">>,
      <<"v","a","l","u","e","O","f">> }

\* obj[key] on a plain object: an own property, else an inherited one, else
\* undefined.
GetProp(obj, key) ==
    IF key \in DOMAIN obj THEN obj[key]
    ELSE IF key \in ObjectPrototype THEN [kind |-> "inherited", name |-> key]
    ELSE Undefined

(* ----------------------------- constructor ---------------------------- *)

\* rpcUrl is `process.env.X || fallback`, read once at construction.
Profile(name, env, fallback, explorer) ==
    [kind |-> "profile", name |-> name,
     rpcUrl |-> [env |-> env, fallback |-> fallback], blockExplorer |-> explorer]

Networks ==
    (polygon :> Profile("Polygon Mainnet", "POLYGON_RPC_URL",
                        "https://polygon-rpc.com", "https://polygonscan.com"))
    @@ (ethereum :> Profile("Ethereum Mainnet", "ETHEREUM_RPC_URL",
                        "https://mainnet.infura.io/v3/YOUR_INFURA_PROJECT_ID",
                        "https://etherscan.io"))
    @@ (polygonMumbai :> Profile("Polygon Mumbai", "POLYGON_TESTNET_RPC_URL",
                        "https://rpc-mumbai.maticvigil.com",
                        "https://mumbai.polygonscan.com"))

\* new ethers.JsonRpcProvider(url): a fresh object; `object` is its identity.
JsonRpcProvider(rpcUrl, object) ==
    [kind |-> "provider", rpcUrl |-> rpcUrl, object |-> object]

Providers ==
    [k \in {ethereum, polygon, polygonMumbai} |->
        JsonRpcProvider(Networks[k].rpcUrl, <<"constructor", k>>)]

Constructed ==
    [networks |-> Networks, providers |-> Providers, defaultNetwork |-> Str(polygon)]

(* --------------------------- errors, results -------------------------- *)

Msg(text, arg) == [text |-> text, arg |-> arg]

Error(type, message) == [kind |-> "error", type |-> type, message |-> message]

NotSupported(networkName) == Error("Error", Msg("Network ${networkName} not supported", networkName))

TypeError(text) == Error("TypeError", Msg(text, Undefined))

NoResult == [kind |-> "none"]

Return(v) == [kind |-> "return", value |-> v]

Throw(e) == [kind |-> "throw", error |-> e]

\* A default parameter value applies to undefined only.
DefaultParam(networkName) ==
    IF networkName.kind = "undefined" THEN gateway.defaultNetwork ELSE networkName

(* ----------------------------- getProvider ---------------------------- *)

\* getProvider(networkName = this.defaultNetwork): the provider, or the throw.
getProvider(networkName) ==
    LET name == DefaultParam(networkName)
        chosen == IF Truthy(name) THEN name ELSE gateway.defaultNetwork
        key == toLowerCase(chosen.chars)
        provider == GetProp(gateway.providers, key)
    IN  IF ~Truthy(provider) THEN Throw(NotSupported(name)) ELSE Return(provider)

\* A value whose methods (getBlockNumber, getBalance, ...) can be called.
IsProvider(p) == p.kind = "provider"

NotAFunction(method) == TypeError(method)

(* ------------------------- upstream JSON-RPC node --------------------- *)

Request(method, provider) ==
    [method |-> method, conn |-> provider, state |-> "pending", value |-> Undefined]

UpstreamErrors ==
    { Error("Error", Msg("timeout", Undefined)),
      Error("Error", Msg("execution reverted", Undefined)) }

\* ethers FeeData: a legacy network sets gasPrice only, a fee-market network
\* sets all three.
FeeData(gasPrice, maxFeePerGas, maxPriorityFeePerGas) ==
    [kind |-> "feeData", gasPrice |-> gasPrice, maxFeePerGas |-> maxFeePerGas,
     maxPriorityFeePerGas |-> maxPriorityFeePerGas]

TxHash == "0xhash"

\* What the node can answer to a call it accepts.
Answers(method) ==
    CASE method \in {"getBlockNumber", "getBalance", "estimateGas"} ->
            { Num(0), Num(MaxBlock) }
      [] method = "getTransaction" ->
            { Null, [kind |-> "transaction", hash |-> TxHash] }
      [] method = "getFeeData" ->
            { FeeData(Num(MaxBlock), Null, Null), FeeData(Num(MaxBlock), Num(MaxBlock), Num(0)) }
      [] method = "sendTransaction" ->
            { [kind |-> "txResponse", hash |-> TxHash] }
      [] method = "wait" ->
            { [kind |-> "receipt", hash |-> TxHash] }

\* A pending call settles: it is answered, or it fails with an upstream error.
Outcomes(method) ==
    { [state |-> "ok", value |-> v] : v \in Answers(method) }
    \cup { [state |-> "failed", value |-> e] : e \in UpstreamErrors }

(* ------------------------------ invocations --------------------------- *)

\* arg: the network key the caller passed; networkName: the parameter after
\* its default; network: the local of that name; reqs: the upstream calls the
\* invocation issued, in order.
Idle ==
    [op |-> "idle", arg |-> Undefined, networkName |-> Undefined, pc |-> "idle",
     network |-> Undefined, reqs |-> <<>>, result |-> NoResult, waitInvoked |-> FALSE]

\* The call ran to its end (returned or threw) without suspending.
Finished(op, arg, result) ==
    [op |-> op, arg |-> arg, networkName |-> DefaultParam(arg), pc |-> "done",
     network |-> Undefined, reqs |-> <<>>, result |-> result, waitInvoked |-> FALSE]

\* The call is suspended at an await.
Suspended(op, arg, pc, network, reqs) ==
    [op |-> op, arg |-> arg, networkName |-> DefaultParam(arg), pc |-> pc,
     network |-> network, reqs |-> reqs, result |-> NoResult, waitInvoked |-> FALSE]

\* A suspended call runs to its end.
Done(inv, result) == [inv EXCEPT !.pc = "done", !.result = result]

\* A caller with no invocation in flight starts one.
Start(c, inv) ==
    /\ calls[c].op = "idle"
    /\ invoked < MaxCalls
    /\ calls' = [calls EXCEPT ![c] = inv]
    /\ invoked' = invoked + 1

\* networkName.toLowerCase() on a value that is no string.
NoToLowerCase == TypeError("Cannot read properties of null (reading 'toLowerCase')")

(* --------------------------- number formatting ------------------------ *)

Digits == <<"0","1","2","3","4","5","6","7","8","9">>

RECURSIVE DecimalChars(_)
\* BigInt.prototype.toString: the decimal digits of n.
DecimalChars(n) ==
    IF n < 10 THEN <<Digits[n + 1]>>
    ELSE DecimalChars(n \div 10) \o <<Digits[(n % 10) + 1]>>

toString(v) == Str(DecimalChars(v.n))

\* `x?.toString() || null` of a fee field.
FeeString(field) == IF field.kind = "number" THEN toString(field) ELSE Null

\* Decimal places of one ether in wei (ethers.formatEther).
EtherDecimals == 18

RECURSIVE StripZeros(_)
StripZeros(ds) ==
    IF Len(ds) > 1 /\ ds[Len(ds)] = "0" THEN StripZeros(SubSeq(ds, 1, Len(ds) - 1)) ELSE ds

\* ethers.formatEther(wei): whole part, '.', fraction without trailing zeros.
formatEther(wei) ==
    LET ds == DecimalChars(wei.n)
        padded == [i \in 1..(EtherDecimals + 1 - Len(ds)) |-> "0"] \o ds
        all == IF Len(ds) > EtherDecimals THEN ds ELSE padded
        whole == SubSeq(all, 1, Len(all) - EtherDecimals)
        frac == SubSeq(all, Len(all) - EtherDecimals + 1, Len(all))
    IN  Str(whole \o <<".">> \o StripZeros(frac))

(* ------------------------ status and read queries --------------------- *)

Online(network, bn) ==
    [kind |-> "status", status |-> "online", network |-> network,
     latestBlock |-> bn, error |-> Undefined]

StatusError(network, message) ==
    [kind |-> "status", status |-> "error", network |-> network,
     latestBlock |-> Undefined, error |-> message]

\* getNetworkStatus up to `await provider.getBlockNumber()`.
getNetworkStatus(c, networkName) ==
    /\ Start(c,
         LET name == DefaultParam(networkName)
             key == toLowerCase(name.chars)
             network == GetProp(gateway.networks, key)
             provider == getProvider(name)
         IN  IF name.kind # "string"
             THEN Finished("getNetworkStatus", networkName, Throw(NoToLowerCase))
             ELSE IF ~Truthy(network)
             THEN Finished("getNetworkStatus", networkName, Throw(NotSupported(name)))
             ELSE IF provider.kind = "throw"
             THEN Finished("getNetworkStatus", networkName,
                           Return(StatusError(network, provider.error.message)))
             ELSE IF ~IsProvider(provider.value)
             THEN Finished("getNetworkStatus", networkName,
                           Return(StatusError(network, NotAFunction("getBlockNumber").message)))
             ELSE Suspended("getNetworkStatus", networkName, "awaitBlockNumber", network,
                            <<Request("getBlockNumber", provider.value)>>))
    /\ UNCHANGED gateway

\* Mutant: getNetworkStatus without its try/catch, a failure propagates.
getNetworkStatusPropagates(inv) ==
    LET bn == inv.reqs[1]
    IN  IF bn.state = "ok"
        THEN Done(inv, Return(Online(inv.network, bn.value)))
        ELSE Done(inv, Throw(bn.value))

\* getNetworkStatus from the await on: return online, or catch and return error.
getNetworkStatusResume(inv) ==
    LET bn == inv.reqs[1]
    IN  IF bn.state = "ok"
        THEN Done(inv, Return(Online(inv.network, bn.value)))
        ELSE Done(inv, Return(StatusError(inv.network, bn.value.message)))

\* The synchronous prefix shared by the methods that begin with
\* `const provider = this.getProvider(networkName)` and await one call on it.
ResolveAndCall(op, networkName, pc, method) ==
    LET provider == getProvider(DefaultParam(networkName))
    IN  IF provider.kind = "throw"
        THEN Finished(op, networkName, provider)
        ELSE IF ~IsProvider(provider.value)
        THEN Finished(op, networkName, Throw(NotAFunction(method)))
        ELSE Suspended(op, networkName, pc, Undefined, <<Request(method, provider.value)>>)

\* this.networks[networkName.toLowerCase()] after the await.
NetworkOf(inv) == GetProp(gateway.networks, toLowerCase(inv.networkName.chars))

getBlockNumber(c, networkName) ==
    /\ Start(c, ResolveAndCall("getBlockNumber", networkName, "awaitBlockNumber",
                               "getBlockNumber"))
    /\ UNCHANGED gateway

getBlockNumberResume(inv) ==
    LET bn == inv.reqs[1]
    IN  IF bn.state = "failed" THEN Done(inv, Throw(bn.value))
        ELSE IF inv.networkName.kind # "string" THEN Done(inv, Throw(NoToLowerCase))
        ELSE Done(inv, Return([kind |-> "blockNumber", network |-> NetworkOf(inv),
                               blockNumber |-> bn.value]))

getWalletBalance(c, networkName) ==
    /\ Start(c, ResolveAndCall("getWalletBalance", networkName, "awaitBalance",
                               "getBalance"))
    /\ UNCHANGED gateway

getWalletBalanceResume(inv) ==
    LET balanceWei == inv.reqs[1]
    IN  IF balanceWei.state = "failed" THEN Done(inv, Throw(balanceWei.value))
        ELSE IF inv.networkName.kind # "string" THEN Done(inv, Throw(NoToLowerCase))
        ELSE IF NetworkOf(inv).kind # "profile"
        THEN Done(inv, Throw(TypeError("Cannot read properties of undefined (reading 'name')")))
        ELSE Done(inv, Return([kind |-> "balance", network |-> NetworkOf(inv).name,
                               balanceWei |-> toString(balanceWei.value),
                               balanceEth |-> formatEther(balanceWei.value)]))

getTransactionDetails(c, networkName) ==
    /\ Start(c, ResolveAndCall("getTransactionDetails", networkName, "awaitTransaction",
                               "getTransaction"))
    /\ UNCHANGED gateway

getTransactionDetailsResume(inv) ==
    LET tx == inv.reqs[1]
    IN  IF tx.state = "failed" THEN Done(inv, Throw(tx.value)) ELSE Done(inv, Return(tx.value))

(* ---------------------------- gas estimation -------------------------- *)

\* Mutant: estimateGasCost issuing both calls in one Promise.all.
estimateGasCostConcurrent(c, networkName) ==
    /\ Start(c,
         LET provider == getProvider(DefaultParam(networkName))
         IN  IF provider.kind = "throw"
             THEN Finished("estimateGasCost", networkName, provider)
             ELSE IF ~IsProvider(provider.value)
             THEN Finished("estimateGasCost", networkName, Throw(NotAFunction("estimateGas")))
             ELSE Suspended("estimateGasCost", networkName, "awaitGas", Undefined,
                            <<Request("estimateGas", provider.value),
                              Request("getFeeData", provider.value)>>))
    /\ UNCHANGED gateway

\* estimateGasCost up to `await provider.estimateGas(tx)`.
estimateGasCost(c, networkName) ==
    /\ Start(c, ResolveAndCall("estimateGasCost", networkName, "awaitGas", "estimateGas"))
    /\ UNCHANGED gateway

\* Mutant: estimateGasCost wrapping the upstream failure in an error of its own.
estimateGasCostWrapsError(inv) ==
    LET settled == inv.reqs[Len(inv.reqs)]
        gas == inv.reqs[1]
    IN  IF settled.state = "failed"
        THEN Done(inv, Throw(Error("GasEstimationError", Msg("gas estimation failed", Undefined))))
        ELSE IF inv.pc = "awaitGas"
        THEN [inv EXCEPT !.pc = "awaitFeeData",
                         !.reqs = Append(inv.reqs, Request("getFeeData", gas.conn))]
        ELSE Done(inv, Return([kind |-> "gasCost", gas |-> toString(gas.value),
                               maxFeePerGas |-> FeeString(settled.value.maxFeePerGas),
                               maxPriorityFeePerGas |->
                                   FeeString(settled.value.maxPriorityFeePerGas)]))

\* estimateGasCost from an await on: after the gas estimate it calls
\* provider.getFeeData() and awaits that; after the fee data it returns.
estimateGasCostResume(inv) ==
    LET settled == inv.reqs[Len(inv.reqs)]
        gas == inv.reqs[1]
    IN  IF settled.state = "failed" THEN Done(inv, Throw(settled.value))
        ELSE IF inv.pc = "awaitGas"
        THEN [inv EXCEPT !.pc = "awaitFeeData",
                         !.reqs = Append(inv.reqs, Request("getFeeData", gas.conn))]
        ELSE Done(inv, Return([kind |-> "gasCost", gas |-> toString(gas.value),
                               maxFeePerGas |-> FeeString(settled.value.maxFeePerGas),
                               maxPriorityFeePerGas |->
                                   FeeString(settled.value.maxPriorityFeePerGas)]))

(* -------------------------- wallet and contract ----------------------- *)

PrivateKeys == {"0xprivatekey"}

\* new ethers.Wallet(privateKey, provider)
Wallet(privateKey, provider) ==
    [kind |-> "wallet", privateKey |-> privateKey, provider |-> provider]

\* new ethers.Contract(contractAddress, abi, provider): no signer attached.
Contract(provider) == [kind |-> "contract", runner |-> provider]

\* Mutant: createWallet keeping the signing key on the gateway.
createWalletKeepsSigner(c, privateKey, networkName) ==
    /\ Start(c,
         LET provider == getProvider(DefaultParam(networkName))
         IN  IF provider.kind = "throw"
             THEN Finished("createWallet", networkName, provider)
             ELSE Finished("createWallet", networkName,
                           Return(Wallet(privateKey, provider.value))))
    /\ gateway' = [networks |-> gateway.networks, providers |-> gateway.providers,
                   defaultNetwork |-> gateway.defaultNetwork, signer |-> privateKey]

createWallet(c, privateKey, networkName) ==
    /\ Start(c,
         LET provider == getProvider(DefaultParam(networkName))
         IN  IF provider.kind = "throw"
             THEN Finished("createWallet", networkName, provider)
             ELSE Finished("createWallet", networkName,
                           Return(Wallet(privateKey, provider.value))))
    /\ UNCHANGED gateway

createContract(c, networkName) ==
    /\ Start(c,
         LET provider == getProvider(DefaultParam(networkName))
         IN  IF provider.kind = "throw"
             THEN Finished("createContract", networkName, provider)
             ELSE Finished("createContract", networkName,
                           Return(Contract(provider.value))))
    /\ UNCHANGED gateway

(* ------------------------- transaction submission --------------------- *)

\* sendTransaction up to `await wallet.sendTransaction(tx)`; the wallet comes
\* from this.createWallet(privateKey, networkName).
sendTransaction(c, privateKey, networkName) ==
    /\ Start(c,
         LET provider == getProvider(DefaultParam(networkName))
         IN  IF provider.kind = "throw"
             THEN Finished("sendTransaction", networkName, provider)
             ELSE IF ~IsProvider(provider.value)
             THEN Finished("sendTransaction", networkName,
                           Throw(NotAFunction("getNetwork")))
             ELSE Suspended("sendTransaction", networkName, "awaitSend", Undefined,
                            <<Request("sendTransaction", provider.value)>>))
    /\ UNCHANGED gateway

\* Mutant: sendTransaction awaiting txResponse.wait() before it returns.
sendTransactionAwaitsReceipt(inv) ==
    LET txResponse == inv.reqs[1]
    IN  IF txResponse.state = "failed" THEN Done(inv, Throw(txResponse.value))
        ELSE IF Len(inv.reqs) = 1
        THEN [inv EXCEPT !.pc = "awaitReceipt",
                         !.reqs = Append(inv.reqs, Request("wait", txResponse.conn))]
        ELSE Done(inv, Return([kind |-> "txHandle", hash |-> txResponse.value.hash,
                               wait |-> "async () => receipt"]))

\* sendTransaction from the await on: the hash and a wait closure, not called.
sendTransactionResume(inv) ==
    LET txResponse == inv.reqs[1]
    IN  IF txResponse.state = "failed" THEN Done(inv, Throw(txResponse.value))
        ELSE Done(inv, Return([kind |-> "txHandle", hash |-> txResponse.value.hash,
                               wait |-> "async () => await txResponse.wait()"]))

\* The caller calls the wait of a handle it was returned: txResponse.wait().
wait(c) ==
    /\ calls[c].op = "sendTransaction"
    /\ calls[c].result.kind = "return"
    /\ ~calls[c].waitInvoked
    /\ calls' = [calls EXCEPT ![c].waitInvoked = TRUE,
                              ![c].reqs = Append(@, Request("wait", calls[c].reqs[1].conn))]
    /\ UNCHANGED <<gateway, invoked>>

(* ------------------------------- stubs -------------------------------- *)

NotImplemented(text) == Throw(Error("Error", Msg(text, Undefined)))

\* Mutant: mintCropNFT resolving the provider before it throws.
mintCropNFTResolvesFirst(c, networkName) ==
    /\ Start(c,
         LET provider == getProvider(DefaultParam(networkName))
         IN  IF provider.kind = "throw"
             THEN Finished("mintCropNFT", networkName, provider)
             ELSE Finished("mintCropNFT", networkName,
                    NotImplemented("mintCropNFT not implemented: deploy and wire NFT contract")))
    /\ UNCHANGED gateway

mintCropNFT(c, networkName) ==
    /\ Start(c, Finished("mintCropNFT", networkName,
          NotImplemented("mintCropNFT not implemented: deploy and wire NFT contract")))
    /\ UNCHANGED gateway

getNFTDetails(c, networkName) ==
    /\ Start(c, Finished("getNFTDetails", networkName,
          NotImplemented("getNFTDetails not implemented: deploy and wire NFT contract")))
    /\ UNCHANGED gateway

transferNFT(c, networkName) ==
    /\ Start(c, Finished("transferNFT", networkName,
          NotImplemented("transferNFT not implemented: deploy and wire NFT contract")))
    /\ UNCHANGED gateway

createBlockchainPayment(c, networkName) ==
    /\ Start(c, Finished("createBlockchainPayment", networkName,
          NotImplemented("createBlockchainPayment not implemented")))
    /\ UNCHANGED gateway

releaseBlockchainPayment(c, networkName) ==
    /\ Start(c, Finished("releaseBlockchainPayment", networkName,
          NotImplemented("releaseBlockchainPayment not implemented")))
    /\ UNCHANGED gateway

(* ----------------------------- network info --------------------------- *)

\* Mutant: getNetworkInfo awaiting the block height before it asks for fees.
getNetworkInfoSequential(c, networkName) ==
    /\ Start(c,
         LET name == DefaultParam(networkName)
             network == GetProp(gateway.networks, toLowerCase(name.chars))
             provider == getProvider(name)
         IN  IF name.kind # "string"
             THEN Finished("getNetworkInfo", networkName, Throw(NoToLowerCase))
             ELSE IF provider.kind = "throw"
             THEN Finished("getNetworkInfo", networkName, provider)
             ELSE IF ~IsProvider(provider.value)
             THEN Finished("getNetworkInfo", networkName,
                           Throw(NotAFunction("getBlockNumber")))
             ELSE Suspended("getNetworkInfo", networkName, "awaitAll", network,
                            <<Request("getBlockNumber", provider.value)>>))
    /\ UNCHANGED gateway

\* getNetworkInfo up to `await Promise.all([...])`: both calls are made while
\* the array is built, before the await.
getNetworkInfo(c, networkName) ==
    /\ Start(c,
         LET name == DefaultParam(networkName)
             network == GetProp(gateway.networks, toLowerCase(name.chars))
             provider == getProvider(name)
         IN  IF name.kind # "string"
             THEN Finished("getNetworkInfo", networkName, Throw(NoToLowerCase))
             ELSE IF provider.kind = "throw"
             THEN Finished("getNetworkInfo", networkName, provider)
             ELSE IF ~IsProvider(provider.value)
             THEN Finished("getNetworkInfo", networkName,
                           Throw(NotAFunction("getBlockNumber")))
             ELSE Suspended("getNetworkInfo", networkName, "awaitAll", network,
                            <<Request("getBlockNumber", provider.value),
                              Request("getFeeData", provider.value)>>))
    /\ UNCHANGED gateway

\* getNetworkInfo from the await on. Promise.all rejects with the first
\* rejection and resolves once every call has resolved.
getNetworkInfoResume(inv) ==
    LET blockNumber == inv.reqs[1]
        feeData == inv.reqs[2]
        rejected == {i \in 1..2 : inv.reqs[i].state = "failed"}
    IN  IF rejected # {}
        THEN Done(inv, Throw(inv.reqs[CHOOSE i \in rejected : TRUE].value))
        ELSE IF blockNumber.state = "pending" \/ feeData.state = "pending" THEN inv
        ELSE IF inv.network.kind # "profile"
        THEN Done(inv, Throw(TypeError("Cannot read properties of undefined (reading 'name')")))
        ELSE Done(inv, Return([kind |-> "networkInfo", name |-> inv.network.name,
                 rpcUrl |-> inv.network.rpcUrl,
                 blockExplorer |-> inv.network.blockExplorer,
                 blockNumber |-> blockNumber.value,
                 feeData |-> [gasPrice |-> FeeString(feeData.value.gasPrice),
                              maxFeePerGas |-> FeeString(feeData.value.maxFeePerGas),
                              maxPriorityFeePerGas |->
                                  FeeString(feeData.value.maxPriorityFeePerGas)]]))

(* --------------------------- the state machine ------------------------ *)

\* The direct call of getProvider.
resolve(c, networkName) ==
    /\ Start(c, Finished("getProvider", networkName, getProvider(networkName)))
    /\ UNCHANGED gateway

\* The continuation of the invocation whose upstream call has just settled.
Resume(inv) ==
    CASE inv.op = "getNetworkStatus" -> getNetworkStatusResume(inv)
      [] inv.op = "getBlockNumber" -> getBlockNumberResume(inv)
      [] inv.op = "getWalletBalance" -> getWalletBalanceResume(inv)
      [] inv.op = "getTransactionDetails" -> getTransactionDetailsResume(inv)
      [] inv.op = "estimateGasCost" -> estimateGasCostResume(inv)
      [] inv.op = "sendTransaction" -> sendTransactionResume(inv)
      [] inv.op = "getNetworkInfo" -> getNetworkInfoResume(inv)

\* The node settles pending call i of c's invocation; the invocation that
\* awaits it runs on to its next await or to its end. A call nobody awaits
\* any more (the other call of a rejected Promise.all, a wait) only settles.
Settle(c, i, outcome) ==
    /\ i \in 1..Len(calls[c].reqs)
    /\ calls[c].reqs[i].state = "pending"
    /\ outcome \in Outcomes(calls[c].reqs[i].method)
    /\ LET settled == [calls[c] EXCEPT !.reqs[i].state = outcome.state,
                                       !.reqs[i].value = outcome.value]
       IN  calls' = [calls EXCEPT ![c] =
                        IF settled.pc = "done" THEN settled ELSE Resume(settled)]
    /\ UNCHANGED <<gateway, invoked>>

\* The caller drops a finished invocation and may call again.
Discard(c) ==
    /\ calls[c].pc = "done"
    /\ calls' = [calls EXCEPT ![c] = Idle]
    /\ UNCHANGED <<gateway, invoked>>

Goerli == <<"g","o","e","r","l","i">>

\* The network keys callers pass: omitted, null, '', casings of the registry
\* keys, an unregistered key, and a name inherited from Object.prototype.
NetworkNames ==
    { Undefined, Null, Str(<<>>),
      Str(polygon), Str(toUpperCase(polygon)),
      Str(ethereum), Str(polygonMumbai),
      Str(Goerli), Str(<<"c","o","n","s","t","r","u","c","t","o","r">>) }

Init ==
    /\ gateway = Constructed
    /\ calls = [c \in Callers |-> Idle]
    /\ invoked = 0

Next ==
    \E c \in Callers :
        \/ \E networkName \in NetworkNames :
              \/ resolve(c, networkName)
              \/ getNetworkStatus(c, networkName)
              \/ getBlockNumber(c, networkName)
              \/ getWalletBalance(c, networkName)
              \/ getTransactionDetails(c, networkName)
              \/ estimateGasCost(c, networkName)
              \/ createContract(c, networkName)
              \/ mintCropNFT(c, networkName)
              \/ getNFTDetails(c, networkName)
              \/ transferNFT(c, networkName)
              \/ createBlockchainPayment(c, networkName)
              \/ releaseBlockchainPayment(c, networkName)
              \/ getNetworkInfo(c, networkName)
              \/ \E privateKey \in PrivateKeys :
                    \/ createWallet(c, privateKey, networkName)
                    \/ sendTransaction(c, privateKey, networkName)
        \/ \E i \in 1..Len(calls[c].reqs) :
              \E outcome \in Outcomes(calls[c].reqs[i].method) : Settle(c, i, outcome)
        \/ wait(c)
        \/ Discard(c)

Spec == Init /\ [][Next]_vars

(* ------------------------------- claims -------------------------------- *)

\* The registry keys networkName matches when letter case is ignored.
Matching(networkName) ==
    {k \in DOMAIN gateway.networks : toLowerCase(k) = toLowerCase(networkName.chars)}

\* The key was supplied: neither omitted nor null nor ''.
Supplied(networkName) == Truthy(networkName)

Stubs ==
    {"mintCropNFT", "getNFTDetails", "transferNFT", "createBlockchainPayment",
     "releaseBlockchainPayment"}

\* The text of each stub's error.
StubMessage(op) ==
    CASE op = "mintCropNFT" -> "mintCropNFT not implemented: deploy and wire NFT contract"
      [] op = "getNFTDetails" -> "getNFTDetails not implemented: deploy and wire NFT contract"
      [] op = "transferNFT" -> "transferNFT not implemented: deploy and wire NFT contract"
      [] op = "createBlockchainPayment" -> "createBlockchainPayment not implemented"
      [] op = "releaseBlockchainPayment" -> "releaseBlockchainPayment not implemented"

\* The indices of the upstream calls an invocation made itself (the wait of a
\* returned handle is the caller's call) that have failed.
Failed(inv) ==
    {i \in 1..Len(inv.reqs) : inv.reqs[i].method # "wait" /\ inv.reqs[i].state = "failed"}

\* C1: for every registry key and every letter casing of it, getProvider
\* returns the provider created for that key at construction; no casing of a
\* registered key is rejected as unsupported.
C1_EveryCasingResolves ==
    \A c \in Callers :
        LET inv == calls[c]
        IN  (inv.op = "getProvider" /\ Supplied(inv.arg) /\ Matching(inv.arg) # {})
            => \E k \in Matching(inv.arg) : inv.result = Return(Providers[k])

\* C2: getProvider with a supplied key that matches no registered profile
\* always throws the not-supported error, before any upstream call.
C2_UnregisteredKeyThrows ==
    \A c \in Callers :
        LET inv == calls[c]
        IN  (inv.op = "getProvider" /\ Supplied(inv.arg) /\ Matching(inv.arg) = {})
            => (inv.result = Throw(NotSupported(inv.arg)) /\ inv.reqs = <<>>)

\* C3: getNetworkStatus never raises on upstream failure: a failed
\* getBlockNumber call ends the invocation with a returned status "error"
\* carrying the network profile and the upstream message; it raises only
\* before any upstream call; status "online" carries the answered block and
\* is returned only when the call succeeded.
C3_StatusNeverRaisesOnUpstreamFailure ==
    \A c \in Callers :
        LET inv == calls[c]
            profile == GetProp(gateway.networks, toLowerCase(inv.networkName.chars))
        IN  inv.op = "getNetworkStatus" =>
              /\ inv.result.kind = "throw" => inv.reqs = <<>>
              /\ Failed(inv) # {} =>
                    /\ profile.kind = "profile"
                    /\ inv.pc = "done"
                    /\ inv.result =
                         Return(StatusError(profile, inv.reqs[1].value.message))
              /\ (inv.result.kind = "return" /\ inv.result.value.status = "online") =>
                    /\ inv.reqs[1].state = "ok"
                    /\ inv.result.value = Online(profile, inv.reqs[1].value)

\* C3 witness: a getNetworkStatus whose getBlockNumber call failed has
\* returned status "error".
C3_Witness ==
    \E c \in Callers :
        /\ calls[c].op = "getNetworkStatus"
        /\ calls[c].arg = Str(ethereum)
        /\ Failed(calls[c]) = {1}
        /\ calls[c].result.kind = "return"
        /\ calls[c].result.value.status = "error"

\* C4: sendTransaction is complete once the submission is accepted, with the
\* hash and a wait that has not been called: txResponse.wait() is called only
\* by the caller's call of the returned wait.
C4_SubmissionDoesNotWait ==
    \A c \in Callers :
        LET inv == calls[c]
        IN  inv.op = "sendTransaction" =>
              /\ (inv.reqs # <<>> /\ inv.reqs[1].state = "ok") =>
                    /\ inv.pc = "done"
                    /\ inv.result.kind = "return"
                    /\ inv.result.value.hash = inv.reqs[1].value.hash
              /\ \A i \in 1..Len(inv.reqs) :
                    inv.reqs[i].method = "wait" => (inv.waitInvoked /\ i > 1)
              /\ inv.waitInvoked => inv.result.kind = "return"

\* C4 witness: sendTransaction has returned its handle and txResponse.wait()
\* has not been called.
C4_Witness ==
    \E c \in Callers :
        /\ calls[c].op = "sendTransaction"
        /\ calls[c].result.kind = "return"
        /\ ~calls[c].waitInvoked
        /\ Len(calls[c].reqs) = 1

\* C5: each of the five stubs throws its not-implemented error whatever the
\* network key (unregistered and absent keys included) and makes no upstream
\* call.
C5_StubsAlwaysNotImplemented ==
    \A c \in Callers :
        LET inv == calls[c]
        IN  inv.op \in Stubs =>
              /\ inv.pc = "done"
              /\ inv.reqs = <<>>
              /\ inv.result.kind = "throw"
              /\ inv.result = NotImplemented(StubMessage(inv.op))

\* C5 witness: a stub called with an unregistered key has thrown.
C5_Witness ==
    \E c \in Callers :
        /\ calls[c].op = "mintCropNFT"
        /\ calls[c].arg = Str(Goerli)
        /\ calls[c].result.kind = "throw"

\* C6 as claimed: estimateGasCost has issued both of its upstream calls
\* before it awaits either, so an invocation that has a call in flight has
\* issued both.
C6_BothIssuedBeforeEitherAwaited ==
    \A c \in Callers :
        (calls[c].op = "estimateGasCost" /\ calls[c].reqs # <<>>)
            => Len(calls[c].reqs) = 2

\* C6 amended: estimateGasCost makes its two upstream calls one after the
\* other: getFeeData is issued only after estimateGas has answered, never
\* after it failed, and the result is returned only after both have answered.
C6_CallsAreSequential ==
    \A c \in Callers :
        LET inv == calls[c]
        IN  inv.op = "estimateGasCost" =>
              /\ Len(inv.reqs) <= 2
              /\ Len(inv.reqs) >= 1 => inv.reqs[1].method = "estimateGas"
              /\ Len(inv.reqs) = 2 =>
                    (inv.reqs[2].method = "getFeeData" /\ inv.reqs[1].state = "ok")
              /\ inv.result.kind = "return" =>
                    (Len(inv.reqs) = 2 /\ inv.reqs[2].state = "ok")

\* C6 witness: the fee-data call is in flight after the gas estimate answered.
C6_Witness ==
    \E c \in Callers :
        /\ calls[c].op = "estimateGasCost"
        /\ Len(calls[c].reqs) = 2
        /\ calls[c].reqs[1].state = "ok"
        /\ calls[c].reqs[2].state = "pending"

\* C7: getNetworkInfo issues getBlockNumber and getFeeData together, both in
\* flight before either answers, and returns its result only after both have
\* answered.
C7_InfoCallsAreConcurrent ==
    \A c \in Callers :
        LET inv == calls[c]
        IN  inv.op = "getNetworkInfo" =>
              /\ inv.reqs # <<>> =>
                    /\ Len(inv.reqs) = 2
                    /\ inv.reqs[1].method = "getBlockNumber"
                    /\ inv.reqs[2].method = "getFeeData"
                    /\ inv.reqs[1].conn = inv.reqs[2].conn
              /\ inv.result.kind = "return" =>
                    (inv.reqs[1].state = "ok" /\ inv.reqs[2].state = "ok")
              /\ (inv.pc = "awaitAll") => Failed(inv) = {}

\* C7 witness: the fee data has answered while the block height, issued
\* first, is still in flight.
C7_Witness ==
    \E c \in Callers :
        /\ calls[c].op = "getNetworkInfo"
        /\ calls[c].pc = "awaitAll"
        /\ calls[c].reqs[1].state = "pending"
        /\ calls[c].reqs[2].state = "ok"

\* The network key is absent: omitted, null or ''.
Absent(networkName) == ~Truthy(networkName)

\* The upstream calls of two invocations, as far as both made them, are the
\* same calls with the same outcomes.
SameUpstream(a, b) ==
    \A i \in 1..Len(a.reqs) : i <= Len(b.reqs) => a.reqs[i] = b.reqs[i]

\* C8: an operation called with no network key (omitted, null or '') has the
\* outcome of the same call with the key 'polygon', the upstream answering
\* the same.
C8_AbsentKeyMeansPolygon ==
    \A a, b \in Callers :
        ( /\ calls[a].op = calls[b].op
          /\ calls[a].op \notin {"idle", "getProvider"}
          /\ Absent(calls[a].arg)
          /\ calls[b].arg = Str(polygon)
          /\ calls[a].pc = "done"
          /\ calls[b].pc = "done"
          /\ Cardinality(Failed(calls[a])) <= 1
          /\ SameUpstream(calls[a], calls[b]) )
        => calls[a].result = calls[b].result

\* C9: outside getNetworkStatus a failed upstream call ends the invocation
\* with a throw of an upstream error as the node gave it, and no call is
\* issued a second time.
C9_UpstreamFailurePropagatesNoRetry ==
    \A c \in Callers :
        LET inv == calls[c]
        IN  inv.op \notin {"idle", "getNetworkStatus"} =>
              /\ Failed(inv) # {} =>
                    /\ inv.pc = "done"
                    /\ inv.result.kind = "throw"
                    /\ \E i \in Failed(inv) : inv.result.error = inv.reqs[i].value
                    /\ inv.result.error \in UpstreamErrors
              /\ \A i, j \in 1..Len(inv.reqs) :
                    inv.reqs[i].method = inv.reqs[j].method => i = j

\* C9 witness: an estimateGasCost whose estimate the node rejected has thrown
\* that rejection.
C9_Witness ==
    \E c \in Callers :
        /\ calls[c].op = "estimateGasCost"
        /\ Failed(calls[c]) = {1}
        /\ calls[c].result = Throw(Error("Error", Msg("execution reverted", Undefined)))

\* C10: whatever has been called, the gateway holds what the constructor put
\* there: the registry, the three providers and the default key, nothing
\* else, and every upstream call went to a provider made at construction.
C10_GatewayStateIsFrozen ==
    /\ gateway = Constructed
    /\ \A c \in Callers : \A i \in 1..Len(calls[c].reqs) :
          \E k \in DOMAIN Providers : calls[c].reqs[i].conn = Providers[k]

\* C10 witness: a wallet was created from a signing key and a transaction was
\* signed and sent.
C10_Witness ==
    \E a, b \in Callers :
        /\ calls[a].op = "createWallet"
        /\ calls[a].result.kind = "return"
        /\ calls[b].op = "sendTransaction"
        /\ calls[b].result.kind = "return"

====
